---------------------------- MODULE Spec2Model ----------------------------
(***************************************************************************)
(* Model of the system-diagnostics service of tjgokken/AutoGenSystem:      *)
(*   src/app.py                                 the /recommendations route *)
(*   src/orchestrator/diagnostics_orchestrator.py                          *)
(*       SystemDiagnosticsOrchestrator: collect_system_info,               *)
(*       process_diagnostics, _create_analysis_prompt,                     *)
(*       _extract_recommendations and its helpers.                         *)
(*                                                                         *)
(* Text is modelled by TLA+ strings, handled character by character        *)
(* (Len, SubSeq and \o apply to strings), so that splitting, trimming,     *)
(* lower-casing, substring search and number formatting are computed.      *)
(* Floating point metrics are fixed-point numbers with one decimal digit:  *)
(* the integer 875 stands for 87.5 (see Scale).                            *)
(***************************************************************************)
EXTENDS Integers, Sequences, FiniteSets, TLC

(***************************************************************************)
(* Python string primitives.                                               *)
(***************************************************************************)
CharAt(s, i) == SubSeq(s, i, i)

UpperLetters == "ABCDEFGHIJKLMNOPQRSTUVWXYZ"

LowerLetters == "abcdefghijklmnopqrstuvwxyz"

\* str.lower() on one character
LowerChar(c) ==
    IF \E i \in 1..Len(UpperLetters) : CharAt(UpperLetters, i) = c
    THEN CharAt(LowerLetters, CHOOSE i \in 1..Len(UpperLetters) : CharAt(UpperLetters, i) = c)
    ELSE c

RECURSIVE Lower(_)
\* str.lower(): every character lower-cased (split in halves to bound the depth)
Lower(s) ==
    IF Len(s) = 0 THEN s
    ELSE IF Len(s) = 1 THEN LowerChar(s)
    ELSE LET h == Len(s) \div 2
         IN  Lower(SubSeq(s, 1, h)) \o Lower(SubSeq(s, h + 1, Len(s)))

\* the Python operator  sub in s
Contains(s, sub) ==
    \E i \in 1..(Len(s) - Len(sub) + 1) : SubSeq(s, i, i + Len(sub) - 1) = sub

\* str.startswith
StartsWith(s, p) == Len(s) >= Len(p) /\ SubSeq(s, 1, Len(p)) = p

\* str.endswith
EndsWith(s, p) == Len(s) >= Len(p) /\ SubSeq(s, Len(s) - Len(p) + 1, Len(s)) = p

\* the characters str.strip() removes
Whitespace == {" ", "\t", "\n", "\r", "\f"}

\* str.strip(): leading and trailing whitespace removed
Strip(s) ==
    LET keep == {i \in 1..Len(s) : CharAt(s, i) \notin Whitespace}
    IN  IF keep = {} THEN ""
        ELSE LET lo == CHOOSE i \in keep : \A j \in keep : i <= j
                 hi == CHOOSE i \in keep : \A j \in keep : j <= i
             IN  SubSeq(s, lo, hi)

RECURSIVE Split(_, _)
\* str.split(sep) for a one-character separator: always at least one piece
Split(s, sep) ==
    LET at == {i \in 1..Len(s) : CharAt(s, i) = sep}
    IN  IF at = {} THEN <<s>>
        ELSE LET k == CHOOSE i \in at : \A j \in at : i <= j
             IN  <<SubSeq(s, 1, k - 1)>> \o Split(SubSeq(s, k + 1, Len(s)), sep)

RECURSIVE Join(_, _)
\* sep.join(parts)
Join(parts, sep) ==
    IF Len(parts) = 0 THEN ""
    ELSE IF Len(parts) = 1 THEN parts[1]
    ELSE parts[1] \o sep \o Join(Tail(parts), sep)

Digits == "0123456789"

RECURSIVE IntStr(_)
\* str(n) of a natural number
IntStr(n) ==
    IF n < 10 THEN CharAt(Digits, n + 1)
    ELSE IntStr(n \div 10) \o CharAt(Digits, (n % 10) + 1)

\* one decimal digit of fixed point: the integer v stands for v / Scale
Scale == 10

\* format(x, ".1f") and repr(x) of a float with one decimal digit
Fixed1(v) == IntStr(v \div Scale) \o "." \o IntStr(v % Scale)

\* the sequences of at most n elements of S
SeqsUpTo(S, n) == UNION {[1..k -> S] : k \in 0..n}

RECURSIVE ToSet(_)
\* the set of the elements of a sequence
ToSet(seq) == IF Len(seq) = 0 THEN {} ELSE {Head(seq)} \cup ToSet(Tail(seq))


(***************************************************************************)
(* State.  pc is the position of the one request being handled: the route  *)
(* of app.py calls process_diagnostics, which calls collect_system_info,   *)
(* _create_analysis_prompt, the chat session and _extract_recommendations. *)
(***************************************************************************)
VARIABLES
    pc,                 \* position in the code
    proc,               \* what the collector process did (subprocess.run)
    raw_system_info,    \* process_diagnostics: the parsed collector output
    analyzed_metrics,   \* process_diagnostics: the derived statistics
    diagnostic_prompt,  \* process_diagnostics: the prompt text
    chat_invoked,       \* whether manager.initiate_chat was called
    chat_history,       \* chat_result.chat_history, a sequence of messages
    recommendations,    \* _extract_recommendations: the four lists
    expert_responses,   \* _extract_recommendations: the assistant messages
    mi,                 \* index of the message being scanned (1-based)
    lines,              \* content.split('\n') of that message
    li,                 \* index of the line being scanned (1-based)
    current_category,   \* the active category, NoCategory for None
    x_exc,              \* the exception _extract_recommendations caught
    extracted,          \* the value _extract_recommendations returned
    exc,                \* the exception raised inside process_diagnostics
    result,             \* the value process_diagnostics returned
    response            \* the HTTP response of the route

vars == <<pc, proc, raw_system_info, analyzed_metrics, diagnostic_prompt,
          chat_invoked, chat_history, recommendations, expert_responses, mi,
          lines, li, current_category, x_exc, extracted, exc, result, response>>

\* the variables of process_diagnostics and of the route
process_vars == <<proc, raw_system_info, analyzed_metrics, diagnostic_prompt,
                  chat_invoked, exc, result, response>>

\* the local variables of the scan of _extract_recommendations
scan_vars == <<expert_responses, mi, lines, li, current_category>>

(***************************************************************************)
(* Exceptions: a type and the text str(e) gives.                           *)
(***************************************************************************)
NoException == [type |-> "None", msg |-> ""]

\* the exception classes the modelled code can raise; all derive from Exception
ExceptionTypes == {"RuntimeError", "KeyError", "IndexError", "ZeroDivisionError",
                   "OSError", "ChatError"}

Raise(type, msg) == [type |-> type, msg |-> msg]

(***************************************************************************)
(* _extract_recommendations                                                *)
(***************************************************************************)
Categories == {"critical_issues", "performance", "optimization", "upgrade_recommendations"}

\* current_category = None
NoCategory == "None"

\* the dictionary of four empty lists
EmptyRecommendations ==
    [critical_issues |-> <<>>, performance |-> <<>>, optimization |-> <<>>,
     upgrade_recommendations |-> <<>>]

HighMemoryPressureIssue ==
    "High memory pressure detected: System is using 86% of available RAM, only 4.4GB free"

RamUpgradeRecommendation ==
    "Consider upgrading RAM capacity given the high memory usage"

CpuHotspotPerformance ==
    "Some CPU cores (0,1,2) showing high usage (>40%). Consider reviewing process affinity settings"

CpuHotspotOptimization ==
    "Optimize workload distribution across CPU cores to better utilize available resources"

\* the value returned by the except clause; a category is the set of its entries
FallbackRecommendations ==
    [critical_issues |-> {"Memory pressure is high - system is using 86% of available RAM"},
     performance |-> {"Consider optimizing applications to reduce memory usage",
                      "Monitor CPU cores 0, 1, and 2 which show higher usage than others"},
     optimization |-> {"Review running processes and services to identify memory-intensive applications",
                       "Consider redistributing workload across CPU cores for better balance"},
     upgrade_recommendations |-> {"Consider upgrading RAM if high memory usage persists"}]

DefaultPerformance ==
    {"Monitor and optimize applications with high resource usage",
     "Review system startup programs and services"}

DefaultOptimization ==
    {"Implement regular system maintenance and cleanup",
     "Monitor resource usage patterns over time"}

DefaultUpgrade == "Review hardware specifications against workload requirements"

\* a variant of KeywordCategory that tests "performance" first
KeywordCategoryPerformanceFirst(line) ==
    LET low == Lower(line)
    IN  IF Contains(low, "performance") THEN "performance"
        ELSE IF Contains(low, "critical") \/ Contains(low, "immediate") THEN "critical_issues"
        ELSE IF Contains(low, "optimization") \/ Contains(low, "optimize") THEN "optimization"
        ELSE IF Contains(low, "upgrade") THEN "upgrade_recommendations"
        ELSE NoCategory

\* the if/elif chain on line.lower(): the category whose branch the line enters
KeywordCategory(line) ==
    LET low == Lower(line)
    IN  IF Contains(low, "critical") \/ Contains(low, "immediate") THEN "critical_issues"
        ELSE IF Contains(low, "performance") THEN "performance"
        ELSE IF Contains(low, "optimization") \/ Contains(low, "optimize") THEN "optimization"
        ELSE IF Contains(low, "upgrade") THEN "upgrade_recommendations"
        ELSE NoCategory

\* line[1:].strip()
BulletText(line) == Strip(SubSeq(line, 2, Len(line)))

\* recommendations[cat].append(text)
AppendTo(recs, cat, text) == [recs EXCEPT ![cat] = Append(@, text)]

\* the body of the loop over lines, for one raw line: the new lists and the
\* new active category
ScanLine(recs, cat, raw) ==
    LET line == Strip(raw)
        kw == KeywordCategory(line)
    IN  IF line = "" THEN [recs |-> recs, cat |-> cat]
        ELSE IF kw # NoCategory
        THEN IF EndsWith(line, ":") THEN [recs |-> recs, cat |-> kw]
             ELSE IF StartsWith(line, "-")
                  THEN [recs |-> AppendTo(recs, kw, BulletText(line)), cat |-> cat]
                  ELSE [recs |-> recs, cat |-> cat]
        ELSE IF cat # NoCategory /\ StartsWith(line, "-")
             THEN [recs |-> AppendTo(recs, cat, BulletText(line)), cat |-> cat]
             ELSE [recs |-> recs, cat |-> cat]

\* the exception chat_result.chat_history[0]['content'] raises, if any
FirstContentFault(history) ==
    IF Len(history) = 0 THEN Raise("IndexError", "list index out of range")
    ELSE IF "content" \notin DOMAIN history[1] THEN Raise("KeyError", "'content'")
    ELSE NoException

_is_memory_critical(history) ==
    LET metrics == history[1].content
    IN  Contains(Lower(metrics), "pressure_level: high")

_has_cpu_hotspots(history) ==
    LET metrics == history[1].content
    IN  Contains(Lower(metrics), "high usage cores")

\* a variant of Deduplicate that keeps the empty entries
DeduplicateKeepingEmpty(entries) == ToSet(entries)

\* list(set(filter(None, entries))): the order of the list is the iteration
\* order of a Python set, which is unspecified; from here on a category is
\* modelled by the set of its entries
Deduplicate(entries) == {e \in ToSet(entries) : e # ""}

\* any(recommendations.values()) on the de-duplicated categories
AnyRecommendation(recs) == \E c \in Categories : recs[c] # {}

\* a variant of _add_default_recommendations that always adds the upgrade item
AddDefaultsWithUpgrade(recs) ==
    [recs EXCEPT !.performance = @ \cup DefaultPerformance,
                 !.optimization = @ \cup DefaultOptimization,
                 !.upgrade_recommendations = @ \cup {DefaultUpgrade}]

\* lines 235-248
_add_default_recommendations(recs) ==
    LET filled == [recs EXCEPT !.performance = @ \cup DefaultPerformance,
                               !.optimization = @ \cup DefaultOptimization]
    IN  IF filled.critical_issues # {}
        THEN [filled EXCEPT !.upgrade_recommendations = @ \cup {DefaultUpgrade}]
        ELSE filled

\* a variant of ExtractCatches for a clause "except KeyError"
ExtractCatchesKeyErrorOnly(type) == type = "KeyError"

\* whether the clause "except Exception" of _extract_recommendations catches
ExtractCatches(type) == type \in ExceptionTypes

\* a variant of CategoryAtMessageStart that keeps the active category
CategoryCarriedOver(previous) == previous

\* line 147: the active category a message starts with, whatever it was at
\* the end of the message before
CategoryAtMessageStart(previous) == NoCategory

\* lines 131-141: the empty lists and the filter on msg['role']
ExtractStart ==
    /\ pc = "x_start"
    /\ recommendations' = EmptyRecommendations
    /\ IF \E i \in 1..Len(chat_history) : "role" \notin DOMAIN chat_history[i]
       THEN /\ x_exc' = Raise("KeyError", "'role'")
            /\ pc' = "x_except"
            /\ UNCHANGED scan_vars
       ELSE /\ expert_responses' = SelectSeq(chat_history, LAMBDA m : m.role = "assistant")
            /\ mi' = 1
            /\ pc' = "x_message"
            /\ UNCHANGED <<lines, li, current_category, x_exc>>
    /\ UNCHANGED <<chat_history, extracted>>
    /\ UNCHANGED process_vars

\* lines 143-147: the next assistant message, or the end of the loop
ExtractMessage ==
    /\ pc = "x_message"
    /\ IF mi > Len(expert_responses)
       THEN /\ pc' = "x_memory"
            /\ UNCHANGED <<lines, li, current_category, x_exc>>
       ELSE IF "content" \notin DOMAIN expert_responses[mi]
       THEN /\ x_exc' = Raise("KeyError", "'content'")
            /\ pc' = "x_except"
            /\ UNCHANGED <<lines, li, current_category>>
       ELSE /\ lines' = Split(expert_responses[mi].content, "\n")
            /\ current_category' = CategoryAtMessageStart(current_category)
            /\ li' = 1
            /\ pc' = "x_line"
            /\ UNCHANGED x_exc
    /\ UNCHANGED <<chat_history, recommendations, expert_responses, mi, extracted>>
    /\ UNCHANGED process_vars

\* lines 148-184: one line of the message, or the end of the message
ExtractLine ==
    /\ pc = "x_line"
    /\ IF li > Len(lines)
       THEN /\ mi' = mi + 1
            /\ pc' = "x_message"
            /\ UNCHANGED <<recommendations, current_category, li>>
       ELSE LET after == ScanLine(recommendations, current_category, lines[li])
            IN  /\ recommendations' = after.recs
                /\ current_category' = after.cat
                /\ li' = li + 1
                /\ UNCHANGED <<pc, mi>>
    /\ UNCHANGED <<chat_history, expert_responses, lines, x_exc, extracted>>
    /\ UNCHANGED process_vars

\* lines 186-193: the supplementary memory finding
ExtractMemory ==
    /\ pc = "x_memory"
    /\ IF FirstContentFault(chat_history) # NoException
       THEN /\ x_exc' = FirstContentFault(chat_history)
            /\ pc' = "x_except"
            /\ UNCHANGED recommendations
       ELSE /\ recommendations' =
                  IF _is_memory_critical(chat_history)
                  THEN AppendTo(AppendTo(recommendations, "critical_issues",
                                         HighMemoryPressureIssue),
                                "upgrade_recommendations", RamUpgradeRecommendation)
                  ELSE recommendations
            /\ pc' = "x_cpu"
            /\ UNCHANGED x_exc
    /\ UNCHANGED <<chat_history, extracted>>
    /\ UNCHANGED scan_vars
    /\ UNCHANGED process_vars

\* lines 195-202: the supplementary CPU finding
ExtractCpu ==
    /\ pc = "x_cpu"
    /\ IF FirstContentFault(chat_history) # NoException
       THEN /\ x_exc' = FirstContentFault(chat_history)
            /\ pc' = "x_except"
            /\ UNCHANGED recommendations
       ELSE /\ recommendations' =
                  IF _has_cpu_hotspots(chat_history)
                  THEN AppendTo(AppendTo(recommendations, "performance",
                                         CpuHotspotPerformance),
                                "optimization", CpuHotspotOptimization)
                  ELSE recommendations
            /\ pc' = "x_finish"
            /\ UNCHANGED x_exc
    /\ UNCHANGED <<chat_history, extracted>>
    /\ UNCHANGED scan_vars
    /\ UNCHANGED process_vars

\* lines 204-212: de-duplication, the default fill and the return
ExtractFinish ==
    /\ pc = "x_finish"
    /\ LET unique == [c \in Categories |-> Deduplicate(recommendations[c])]
       IN  extracted' = IF AnyRecommendation(unique) THEN unique
                        ELSE _add_default_recommendations(unique)
    /\ pc' = "p_extracted"
    /\ UNCHANGED <<chat_history, recommendations, x_exc>>
    /\ UNCHANGED scan_vars
    /\ UNCHANGED process_vars

\* lines 214-223: the except clause
ExtractExcept ==
    /\ pc = "x_except"
    /\ IF ExtractCatches(x_exc.type)
       THEN /\ extracted' = FallbackRecommendations
            /\ pc' = "p_extracted"
            /\ UNCHANGED exc
       ELSE /\ exc' = x_exc
            /\ pc' = "p_except"
            /\ UNCHANGED extracted
    /\ UNCHANGED <<chat_history, recommendations, x_exc>>
    /\ UNCHANGED scan_vars
    /\ UNCHANGED <<proc, raw_system_info, analyzed_metrics, diagnostic_prompt,
                   chat_invoked, result, response>>

_extract_recommendations ==
    \/ ExtractStart
    \/ ExtractMessage
    \/ ExtractLine
    \/ ExtractMemory
    \/ ExtractCpu
    \/ ExtractFinish
    \/ ExtractExcept

(***************************************************************************)
(* collect_system_info.  The collector's standard output is modelled by    *)
(* the document it denotes ([valid, value]), not by its text: json.loads   *)
(* gives value when valid and raises JSONDecodeError otherwise.            *)
(***************************************************************************)
MaxCores == 2

\* per-core usage percentages (fixed point): 80.0 and 90.5
UsageValues == {80 * Scale, 90 * Scale + 5}

\* memory usage percentages (fixed point): 60.0, 60.1, 80.0, 80.1
MemoryPercentages == {60 * Scale, 60 * Scale + 1, 80 * Scale, 80 * Scale + 1}

TotalMemoryGb == 16 * Scale

\* the one mount of the scenario: 5.0 GB left of 100.0
ScenarioDisks ==
    <<[mount_point |-> "/", total_gb |-> 100 * Scale, available_gb |-> 5 * Scale,
       used_gb |-> 95 * Scale]>>

\* the cpus list of the collector: index is the position, from 0
CpuList(usages) == [i \in 1..Len(usages) |-> [index |-> i - 1, usage |-> usages[i]]]

\* a RawMetrics document
Metrics(usages, p, disks) ==
    [cpu_count |-> Len(usages),
     cpus |-> CpuList(usages),
     total_memory_gb |-> TotalMemoryGb,
     used_memory_gb |-> (TotalMemoryGb * p) \div (100 * Scale),
     available_memory_gb |-> TotalMemoryGb - (TotalMemoryGb * p) \div (100 * Scale),
     memory_usage_percentage |-> p,
     disks |-> disks]

\* the document without one of its fields
Without(doc, field) == [f \in (DOMAIN doc) \ {field} |-> doc[f]]

\* the documents a run of the collector may print: complete ones without
\* and with a disk, and ones that lack a required field
MetricsDocuments ==
    {Metrics(u, p, <<>>) : u \in SeqsUpTo(UsageValues, MaxCores), p \in MemoryPercentages}
    \cup {Metrics(<<90 * Scale + 5, 80 * Scale>>, 80 * Scale + 1, ScenarioDisks)}
    \cup {Without(Metrics(<<80 * Scale>>, 80 * Scale + 1, <<>>), f) :
              f \in {"cpus", "memory_usage_percentage", "disks"}}

JsonDecodeMessage == "Expecting value: line 1 column 1 (char 0)"

\* what subprocess.run may observe: the executable cannot be started, it
\* exits non-zero with some text on stderr, it prints something that is not
\* JSON, or it prints a metrics document
CollectorRuns ==
    {[launched |-> FALSE, returncode |-> 0, stdout |-> [valid |-> FALSE, value |-> <<>>],
      stderr |-> ""]}
    \cup {[launched |-> TRUE, returncode |-> 1, stdout |-> [valid |-> FALSE, value |-> <<>>],
           stderr |-> e] : e \in {"", "access denied"}}
    \cup {[launched |-> TRUE, returncode |-> 0, stdout |-> [valid |-> FALSE, value |-> <<>>],
           stderr |-> ""]}
    \cup {[launched |-> TRUE, returncode |-> 0, stdout |-> [valid |-> TRUE, value |-> d],
           stderr |-> ""] : d \in MetricsDocuments}

\* a variant of CollectErrorMessage that leaves the stderr text out
CollectErrorMessageWithoutStderr(stderr) == "Error running system diagnostics: "

\* str(e) of the RuntimeError raised for CalledProcessError
CollectErrorMessage(stderr) == "Error running system diagnostics: " \o stderr

\* str(e) of the RuntimeError raised for JSONDecodeError
ParseErrorMessage(detail) == "Error parsing system information: " \o detail

\* the exception collect_system_info raises on this run, if any
CollectFault(run) ==
    IF ~run.launched THEN Raise("OSError", "[Errno 8] Exec format error")
    ELSE IF run.returncode # 0 THEN Raise("RuntimeError", CollectErrorMessage(run.stderr))
    ELSE IF ~run.stdout.valid THEN Raise("RuntimeError", ParseErrorMessage(JsonDecodeMessage))
    ELSE NoException

(***************************************************************************)
(* process_diagnostics: the derived statistics.                            *)
(***************************************************************************)
\* the top-level fields of raw_system_info, in the order the dictionary
\* display reads them; position 2 is followed by the division by cpu_count
FieldsRead ==
    <<"cpu_count", "cpus", "total_memory_gb", "used_memory_gb", "available_memory_gb",
      "memory_usage_percentage", "disks">>

RECURSIVE SumUsage(_)
SumUsage(cpus) == IF Len(cpus) = 0 THEN 0 ELSE Head(cpus).usage + SumUsage(Tail(cpus))

\* the exception the dictionary display raises on this document, if any:
\* the first missing field in evaluation order, or the division by zero
AnalyzeFault(raw) ==
    LET missing == {i \in 1..Len(FieldsRead) : FieldsRead[i] \notin DOMAIN raw}
        first == CHOOSE i \in missing : \A j \in missing : i <= j
    IN  IF missing # {} /\ first <= 2 THEN Raise("KeyError", "'" \o FieldsRead[first] \o "'")
        ELSE IF raw.cpu_count = 0 THEN Raise("ZeroDivisionError", "division by zero")
        ELSE IF missing # {} THEN Raise("KeyError", "'" \o FieldsRead[first] \o "'")
        ELSE NoException

\* a variant of PressureLevel whose comparisons include the thresholds
PressureLevelInclusive(p) ==
    IF p >= 80 * Scale THEN "high" ELSE IF p >= 60 * Scale THEN "medium" ELSE "normal"

\* lines 270-271
PressureLevel(p) ==
    IF p > 80 * Scale THEN "high" ELSE IF p > 60 * Scale THEN "medium" ELSE "normal"

\* lines 280-281
DiskStatus(available_gb) ==
    IF available_gb < 10 * Scale THEN "critical"
    ELSE IF available_gb < 50 * Scale THEN "warning" ELSE "ok"

\* line 279; the quotient is cut to one decimal digit
DiskUsagePercentage(disk) ==
    IF disk.total_gb > 0 THEN (disk.used_gb * 100 * Scale) \div disk.total_gb ELSE 0

\* num / den rounded to the nearest integer, a tie to the even one, as the
\* format ".1f" rounds the mean it prints
RoundHalfEven(num, den) ==
    LET q == num \div den
        r == num % den
    IN  IF 2 * r < den THEN q
        ELSE IF 2 * r > den THEN q + 1
        ELSE IF q % 2 = 0 THEN q ELSE q + 1

\* lines 257-285; the mean is kept to one decimal digit
AnalyzeMetrics(raw) ==
    [cpu |->
        [core_count |-> raw.cpu_count,
         average_usage |-> RoundHalfEven(SumUsage(raw.cpus), raw.cpu_count),
         usage_per_core |-> [i \in 1..Len(raw.cpus) |-> raw.cpus[i].usage],
         high_usage_cores |->
            LET hot == SelectSeq(raw.cpus, LAMBDA cpu : cpu.usage > 80 * Scale)
            IN  [i \in 1..Len(hot) |-> hot[i].index]],
     memory |->
        [total_gb |-> raw.total_memory_gb,
         used_gb |-> raw.used_memory_gb,
         available_gb |-> raw.available_memory_gb,
         usage_percentage |-> raw.memory_usage_percentage,
         pressure_level |-> PressureLevel(raw.memory_usage_percentage)],
     storage |->
        [i \in 1..Len(raw.disks) |->
            [mount_point |-> raw.disks[i].mount_point,
             total_gb |-> raw.disks[i].total_gb,
             available_gb |-> raw.disks[i].available_gb,
             used_gb |-> raw.disks[i].used_gb,
             usage_percentage |-> DiskUsagePercentage(raw.disks[i]),
             status |-> DiskStatus(raw.disks[i].available_gb)]]]

(***************************************************************************)
(* _create_analysis_prompt                                                 *)
(***************************************************************************)
\* str() of a list whose elements have these texts
ListRepr(texts) == "[" \o Join(texts, ", ") \o "]"

Quote == "\""

RECURSIVE JsonEscape(_)
\* the escapes json.dumps applies to the quote and the backslash
JsonEscape(s) ==
    IF Len(s) = 0 THEN s
    ELSE IF Len(s) = 1 THEN (IF s = Quote \/ s = "\\" THEN "\\" \o s ELSE s)
    ELSE LET h == Len(s) \div 2
         IN  JsonEscape(SubSeq(s, 1, h)) \o JsonEscape(SubSeq(s, h + 1, Len(s)))

JsonString(s) == Quote \o JsonEscape(s) \o Quote

\* one member line of an object at nesting depth 2 of json.dumps(indent=2)
JsonMember(key, text) == "    " \o JsonString(key) \o ": " \o text

\* one element of the storage list, as json.dumps(indent=2) prints it
JsonDisk(d) ==
    "  {\n"
    \o Join(<<JsonMember("mount_point", JsonString(d.mount_point)),
              JsonMember("total_gb", Fixed1(d.total_gb)),
              JsonMember("available_gb", Fixed1(d.available_gb)),
              JsonMember("used_gb", Fixed1(d.used_gb)),
              JsonMember("usage_percentage", Fixed1(d.usage_percentage)),
              JsonMember("status", JsonString(d.status))>>, ",\n")
    \o "\n  }"

\* json.dumps(storage, indent=2)
JsonStorage(storage) ==
    IF Len(storage) = 0 THEN "[]"
    ELSE "[\n" \o Join([i \in 1..Len(storage) |-> JsonDisk(storage[i])], ",\n") \o "\n]"

\* lines 72-112: the f-string, line by line
_create_analysis_prompt(analyzed_data) ==
    Join(<<
      "Please analyze these system metrics and provide specific recommendations:",
      "",
      "CPU Analysis:",
      "- " \o IntStr(analyzed_data.cpu.core_count) \o " cores",
      "- Average Usage: " \o Fixed1(analyzed_data.cpu.average_usage) \o "%",
      "- High Usage Cores: "
          \o ListRepr([i \in 1..Len(analyzed_data.cpu.high_usage_cores) |->
                          IntStr(analyzed_data.cpu.high_usage_cores[i])]),
      "- Usage per Core: "
          \o ListRepr([i \in 1..Len(analyzed_data.cpu.usage_per_core) |->
                          "'" \o Fixed1(analyzed_data.cpu.usage_per_core[i]) \o "%'"]),
      "",
      "Memory Analysis:",
      "- Total: " \o Fixed1(analyzed_data.memory.total_gb) \o " GB",
      "- Used: " \o Fixed1(analyzed_data.memory.used_gb) \o " GB",
      "- Available: " \o Fixed1(analyzed_data.memory.available_gb) \o " GB",
      "- Usage: " \o Fixed1(analyzed_data.memory.usage_percentage) \o "%",
      "- Pressure Level: " \o analyzed_data.memory.pressure_level,
      "",
      "Storage Analysis:",
      JsonStorage(analyzed_data.storage),
      "",
      "Based on these metrics, please provide:",
      "",
      "1. Critical Issues (if any):",
      "   - Immediate problems requiring attention",
      "   - Performance bottlenecks",
      "   - Resource constraints",
      "",
      "2. Performance Recommendations:",
      "   - CPU optimization suggestions",
      "   - Memory usage improvements",
      "   - Storage optimization tips",
      "",
      "3. Optimization Opportunities:",
      "   - Resource utilization improvements",
      "   - System configuration adjustments",
      "   - Performance tuning suggestions",
      "",
      "4. Upgrade Recommendations (if needed):",
      "   - Hardware upgrade suggestions",
      "   - Capacity planning recommendations",
      "   - System expansion considerations",
      "",
      "Focus on specific, actionable recommendations that would improve system performance and reliability."
    >>, "\n")

(***************************************************************************)
(* The extractor on its own: _extract_recommendations applied to every     *)
(* transcript of at most MaxMsgs messages drawn from TranscriptMessages.   *)
(***************************************************************************)
MaxMsgs == 2

\* contents of assistant messages: headers, bullets, blank and padded lines,
\* lines with the keywords of several categories, empty and repeated bullets
AssistantContents ==
    {"Performance Recommendations:\n- Reduce background tasks\n- Close unused apps",
     "Critical Issues:",
     "- Close unused apps\n\n  - Add more RAM  ",
     "- Critical performance upgrade\nOptimize performance:\n- Reduce background tasks",
     "- Immediate optimization:\n- Add more RAM",
     "Upgrade Recommendations:\n-\n- Add more RAM\n- Add more RAM"}

\* contents of the other messages: with and without the trigger substrings
UserContents ==
    {"Memory pressure_level: HIGH",
     "High Usage Cores: [0]",
     "Please analyze these system metrics"}

\* well-formed messages, and messages that lack a field
TranscriptMessages ==
    {[role |-> "assistant", content |-> c] : c \in AssistantContents}
    \cup {[role |-> "user", content |-> c] : c \in UserContents}
    \cup {[content |-> "Please analyze these system metrics"],
          [role |-> "assistant"],
          [role |-> "user"]}

Transcripts == SeqsUpTo(TranscriptMessages, MaxMsgs)

NoResult == [status |-> "unset"]

NoResponse == [status_code |-> 0, body |-> NoResult]

NoProcess ==
    [launched |-> FALSE, returncode |-> 0, stdout |-> [valid |-> FALSE, value |-> <<>>],
     stderr |-> ""]

\* the values of the variables that are not yet assigned
InitProcess ==
    /\ proc = NoProcess
    /\ raw_system_info = <<>>
    /\ analyzed_metrics = <<>>
    /\ diagnostic_prompt = ""
    /\ chat_invoked = FALSE
    /\ exc = NoException
    /\ result = NoResult
    /\ response = NoResponse

InitExtract ==
    /\ recommendations = EmptyRecommendations
    /\ expert_responses = <<>>
    /\ mi = 0
    /\ lines = <<>>
    /\ li = 0
    /\ current_category = NoCategory
    /\ x_exc = NoException
    /\ extracted = [c \in Categories |-> {}]

\* _extract_recommendations is called with some transcript
ExtractInit ==
    /\ pc = "x_start"
    /\ chat_history \in Transcripts
    /\ InitProcess
    /\ InitExtract

ExtractSpec == ExtractInit /\ [][_extract_recommendations]_vars

(***************************************************************************)
(* The request: GET /recommendations, process_diagnostics and the chat.    *)
(***************************************************************************)
MaxReplies == 1

\* the messages the chat session may add after the prompt
ReplyMessages ==
    {[role |-> "assistant",
      content |-> "Performance Recommendations:\n- Reduce background tasks\n- Close unused apps"],
     [role |-> "assistant"]}

\* the role the transcript gives to the prompt, its first message
PromptRoles == {"user", "assistant"}

ChatErrorMessage == "Connection error."

\* a variant of ProcessCatches for a clause "except RuntimeError"
ProcessCatchesRuntimeErrorOnly(type) == type = "RuntimeError"

\* whether the clause "except Exception" of process_diagnostics catches
ProcessCatches(type) == type \in ExceptionTypes

\* app.py lines 16-19: the route calls process_diagnostics
RecommendationsRoute ==
    /\ pc = "idle"
    /\ pc' = "p_collect"
    /\ UNCHANGED <<chat_history, recommendations, x_exc, extracted>>
    /\ UNCHANGED scan_vars
    /\ UNCHANGED process_vars

\* lines 114-127 and 254
CollectSystemInfo ==
    /\ pc = "p_collect"
    /\ \E run \in CollectorRuns :
          /\ proc' = run
          /\ IF CollectFault(run) # NoException
             THEN /\ exc' = CollectFault(run)
                  /\ pc' = "p_except"
                  /\ UNCHANGED raw_system_info
             ELSE /\ raw_system_info' = run.stdout.value
                  /\ pc' = "p_analyze"
                  /\ UNCHANGED exc
    /\ UNCHANGED <<analyzed_metrics, diagnostic_prompt, chat_invoked, result, response>>
    /\ UNCHANGED <<chat_history, recommendations, x_exc, extracted>>
    /\ UNCHANGED scan_vars

\* lines 257-285
Analyze ==
    /\ pc = "p_analyze"
    /\ IF AnalyzeFault(raw_system_info) # NoException
       THEN /\ exc' = AnalyzeFault(raw_system_info)
            /\ pc' = "p_except"
            /\ UNCHANGED analyzed_metrics
       ELSE /\ analyzed_metrics' = AnalyzeMetrics(raw_system_info)
            /\ pc' = "p_prompt"
            /\ UNCHANGED exc
    /\ UNCHANGED <<proc, raw_system_info, diagnostic_prompt, chat_invoked, result, response>>
    /\ UNCHANGED <<chat_history, recommendations, x_exc, extracted>>
    /\ UNCHANGED scan_vars

\* line 288
CreatePrompt ==
    /\ pc = "p_prompt"
    /\ diagnostic_prompt' = _create_analysis_prompt(analyzed_metrics)
    /\ pc' = "p_chat"
    /\ UNCHANGED <<proc, raw_system_info, analyzed_metrics, chat_invoked, exc, result, response>>
    /\ UNCHANGED <<chat_history, recommendations, x_exc, extracted>>
    /\ UNCHANGED scan_vars

\* lines 291-297: the chat session raises, or gives a transcript that starts
\* with the prompt; _extract_recommendations is then called
InitiateChat ==
    /\ pc = "p_chat"
    /\ chat_invoked' = TRUE
    /\ \/ /\ exc' = Raise("ChatError", ChatErrorMessage)
          /\ pc' = "p_except"
          /\ UNCHANGED chat_history
       \/ \E role \in PromptRoles, replies \in SeqsUpTo(ReplyMessages, MaxReplies) :
             /\ chat_history' = <<[role |-> role, content |-> diagnostic_prompt]>> \o replies
             /\ pc' = "x_start"
             /\ UNCHANGED exc
    /\ UNCHANGED <<proc, raw_system_info, analyzed_metrics, diagnostic_prompt, result, response>>
    /\ UNCHANGED <<recommendations, x_exc, extracted>>
    /\ UNCHANGED scan_vars

\* lines 299-304
ReturnSuccess ==
    /\ pc = "p_extracted"
    /\ result' = [status |-> "success",
                  raw_metrics |-> raw_system_info,
                  analyzed_metrics |-> analyzed_metrics,
                  recommendations |-> extracted]
    /\ pc' = "p_returned"
    /\ UNCHANGED <<proc, raw_system_info, analyzed_metrics, diagnostic_prompt, chat_invoked,
                   exc, response>>
    /\ UNCHANGED <<chat_history, recommendations, x_exc, extracted>>
    /\ UNCHANGED scan_vars

\* lines 306-311; an exception the clause does not catch leaves the function
ProcessExcept ==
    /\ pc = "p_except"
    /\ IF ProcessCatches(exc.type)
       THEN /\ result' = [status |-> "error", message |-> exc.msg]
            /\ pc' = "p_returned"
       ELSE /\ pc' = "raised"
            /\ UNCHANGED result
    /\ UNCHANGED <<proc, raw_system_info, analyzed_metrics, diagnostic_prompt, chat_invoked,
                   exc, response>>
    /\ UNCHANGED <<chat_history, recommendations, x_exc, extracted>>
    /\ UNCHANGED scan_vars

\* app.py line 20: jsonify(result), with Flask's default status
Respond ==
    /\ pc = "p_returned"
    /\ response' = [status_code |-> 200, body |-> result]
    /\ pc' = "done"
    /\ UNCHANGED <<proc, raw_system_info, analyzed_metrics, diagnostic_prompt, chat_invoked,
                   exc, result>>
    /\ UNCHANGED <<chat_history, recommendations, x_exc, extracted>>
    /\ UNCHANGED scan_vars

Init ==
    /\ pc = "idle"
    /\ chat_history = <<>>
    /\ InitProcess
    /\ InitExtract

Next ==
    \/ RecommendationsRoute
    \/ CollectSystemInfo
    \/ Analyze
    \/ CreatePrompt
    \/ InitiateChat
    \/ ExtractStart
    \/ ExtractMessage
    \/ ExtractLine
    \/ ExtractMemory
    \/ ExtractCpu
    \/ ExtractFinish
    \/ ExtractExcept
    \/ ReturnSuccess
    \/ ProcessExcept
    \/ Respond

Spec == Init /\ [][Next]_vars

(***************************************************************************)
(* Properties.  The vocabulary below restates the documented rules         *)
(* independently of the operators that model the code.                     *)
(***************************************************************************)
CategoryKeywords ==
    [critical_issues |-> {"critical", "immediate"},
     performance |-> {"performance"},
     optimization |-> {"optimization", "optimize"},
     upgrade_recommendations |-> {"upgrade"}]

CategoryPriority ==
    <<"critical_issues", "performance", "optimization", "upgrade_recommendations">>

\* the lowercased line contains a keyword of category c
Mentions(line, c) == \E k \in CategoryKeywords[c] : Contains(Lower(line), k)

MentionedCategories(line) == {c \in Categories : Mentions(line, c)}

\* the first category, in priority order, one of whose keywords the line contains
FirstMentioned(line) ==
    CategoryPriority[CHOOSE i \in 1..Len(CategoryPriority) :
                        /\ Mentions(line, CategoryPriority[i])
                        /\ \A j \in 1..(i - 1) : ~Mentions(line, CategoryPriority[j])]

IsHeader(line) == MentionedCategories(line) # {} /\ EndsWith(line, ":")

IsBullet(line) == StartsWith(line, "-") /\ ~EndsWith(line, ":")

\* the text of a bullet after its marker, trimmed
TextAfterMarker(line) == Strip(SubSeq(line, 2, Len(line)))

\* the line the scan is about to handle
ScanningLine == pc = "x_line" /\ li <= Len(lines)

\* C1: a line that contains category keywords is handled by the first category
\* in the order critical/immediate, performance, optimization/optimize,
\* upgrade, and by no other: ending with ':' it makes that category the active
\* one and emits nothing; otherwise, starting with '-', its text is appended
\* to that category alone; otherwise it changes nothing.
C1_FirstCategoryOnly ==
    [][(ScanningLine /\ MentionedCategories(Strip(lines[li])) # {}) =>
          LET line == Strip(lines[li])
              first == FirstMentioned(line)
          IN  IF EndsWith(line, ":")
              THEN current_category' = first /\ recommendations' = recommendations
              ELSE IF StartsWith(line, "-")
              THEN /\ recommendations' =
                         [recommendations EXCEPT ![first] = Append(@, TextAfterMarker(line))]
                   /\ current_category' = current_category
              ELSE UNCHANGED <<recommendations, current_category>>]_vars

\* C1 witness: in the message being scanned, a bullet with the keywords of
\* several categories has been appended to the first of them and a later
\* header with the keywords of several categories has selected its first.
C1_Witness ==
    /\ pc = "x_line"
    /\ \E i \in 1..(li - 1), j \in 1..(li - 1) :
          /\ i < j
          /\ j = li - 1
          /\ Cardinality(MentionedCategories(Strip(lines[i]))) > 1
          /\ IsBullet(Strip(lines[i]))
          /\ recommendations[FirstMentioned(Strip(lines[i]))] = <<TextAfterMarker(Strip(lines[i]))>>
          /\ \A c \in Categories \ {FirstMentioned(Strip(lines[i]))} : recommendations[c] = <<>>
          /\ Cardinality(MentionedCategories(Strip(lines[j]))) > 1
          /\ IsHeader(Strip(lines[j]))
          /\ current_category = FirstMentioned(Strip(lines[j]))
          /\ current_category # "critical_issues"

RECURSIVE LastHeader(_)
\* the category of the last header among these raw lines, NoCategory if none
LastHeader(raw_lines) ==
    IF Len(raw_lines) = 0 THEN NoCategory
    ELSE LET line == Strip(raw_lines[Len(raw_lines)])
         IN  IF IsHeader(line) THEN FirstMentioned(line)
             ELSE LastHeader(SubSeq(raw_lines, 1, Len(raw_lines) - 1))

RECURSIVE LinesOfMessages(_)
\* the lines of these messages, in order
LinesOfMessages(messages) ==
    IF Len(messages) = 0 THEN <<>>
    ELSE Split(Head(messages).content, "\n") \o LinesOfMessages(Tail(messages))

\* the lines scanned so far in the whole transcript
LinesScannedInTranscript ==
    LinesOfMessages(SubSeq(expert_responses, 1, mi - 1)) \o SubSeq(lines, 1, li - 1)

\* the lines scanned so far in the message being scanned
LinesScannedInMessage == SubSeq(lines, 1, li - 1)

\* a bullet that contains no category keyword
IsPlainBullet(line) == StartsWith(line, "-") /\ MentionedCategories(line) = {}

\* C8 as stated: the active category is the one selected by the most recent
\* header seen so far in the scan of the transcript, and a keyword-free
\* bullet is appended to it, also when that header is in an earlier message.
C8_ActiveAcrossMessages ==
    [][ScanningLine =>
          /\ current_category = LastHeader(LinesScannedInTranscript)
          /\ IsPlainBullet(Strip(lines[li])) =>
                IF LastHeader(LinesScannedInTranscript) # NoCategory
                THEN recommendations' =
                        [recommendations EXCEPT ![LastHeader(LinesScannedInTranscript)] =
                            Append(@, TextAfterMarker(Strip(lines[li])))]
                ELSE recommendations' = recommendations]_vars

\* C8 amended: the active category is the one selected by the most recent
\* header seen so far in the message being scanned (none at the start of each
\* message); a keyword-free bullet is appended to that category, and is
\* dropped when its own message has no header before it.
C8_ActiveWithinMessage ==
    [][ScanningLine =>
          /\ current_category = LastHeader(LinesScannedInMessage)
          /\ IsPlainBullet(Strip(lines[li])) =>
                IF LastHeader(LinesScannedInMessage) # NoCategory
                THEN recommendations' =
                        [recommendations EXCEPT ![LastHeader(LinesScannedInMessage)] =
                            Append(@, TextAfterMarker(Strip(lines[li])))]
                ELSE recommendations' = recommendations]_vars

\* C8 witness: a header in the first assistant message, and in the second a
\* keyword-free bullet with no header before it, which was dropped.
C8_Witness ==
    /\ pc = "x_line"
    /\ mi = 2
    /\ li > 1
    /\ LastHeader(LinesOfMessages(SubSeq(expert_responses, 1, 1))) # NoCategory
    /\ LastHeader(LinesScannedInMessage) = NoCategory
    /\ \E i \in 1..(li - 1) : IsPlainBullet(Strip(lines[i])) /\ TextAfterMarker(Strip(lines[i])) # ""
    /\ current_category = NoCategory
    /\ recommendations = EmptyRecommendations

(***************************************************************************)
(* Properties of the value _extract_recommendations returns.               *)
(***************************************************************************)
Returned == pc = "p_extracted"

HasRole(m) == "role" \in DOMAIN m

HasContent(m) == "content" \in DOMAIN m

IsAssistant(m) == HasRole(m) /\ m.role = "assistant"

AssistantPositions(history) == {i \in 1..Len(history) : IsAssistant(history[i])}

\* the text contains one of the two trigger substrings, in any letter case
MemoryTrigger(text) == Contains(Lower(text), "pressure_level: high")

CpuTrigger(text) == Contains(Lower(text), "high usage cores")

\* one header of exactly one category, then one or more keyword-free bullets
HeaderAndPlainBullets(content) ==
    LET ls == Split(content, "\n")
    IN  /\ Len(ls) >= 2
        /\ Cardinality(MentionedCategories(Strip(ls[1]))) = 1
        /\ EndsWith(Strip(ls[1]), ":")
        /\ \A i \in 2..Len(ls) : IsPlainBullet(Strip(ls[i]))

\* the texts of the bullets below the header
BulletTexts(content) ==
    LET ls == Split(content, "\n")
    IN  {TextAfterMarker(Strip(ls[i])) : i \in 2..Len(ls)}

\* the case of C2: well-formed messages, exactly one assistant message made
\* of a header and keyword-free bullets, no trigger in the first message and
\* some bullet with a text (so that the default fill does not fire)
C2_Case ==
    /\ Len(chat_history) >= 1
    /\ \A i \in 1..Len(chat_history) : HasRole(chat_history[i]) /\ HasContent(chat_history[i])
    /\ Cardinality(AssistantPositions(chat_history)) = 1
    /\ ~MemoryTrigger(chat_history[1].content)
    /\ ~CpuTrigger(chat_history[1].content)
    /\ LET content == chat_history[CHOOSE i \in AssistantPositions(chat_history) : TRUE].content
       IN  HeaderAndPlainBullets(content) /\ BulletTexts(content) # {""}

\* the content of the one assistant message
C2_Content == chat_history[CHOOSE i \in AssistantPositions(chat_history) : TRUE].content

\* the category of its header
C2_Category == FirstMentioned(Strip(Split(C2_Content, "\n")[1]))

\* C2 as stated: the header's category holds exactly the bullets' texts after
\* the marker, trimmed, and the other three categories are empty.
C2_ExactlyTheBulletTexts ==
    (Returned /\ C2_Case) =>
        /\ extracted[C2_Category] = BulletTexts(C2_Content)
        /\ \A c \in Categories \ {C2_Category} : extracted[c] = {}

\* C2 amended: the header's category holds exactly the non-empty texts of the
\* bullets (a bullet that is only the marker contributes nothing), the header
\* is not emitted and the other three categories are empty.
C2_ExactlyTheNonEmptyBulletTexts ==
    (Returned /\ C2_Case) =>
        /\ extracted[C2_Category] = {t \in BulletTexts(C2_Content) : t # ""}
        /\ TextAfterMarker(Strip(Split(C2_Content, "\n")[1])) \notin extracted[C2_Category]
        /\ Strip(Split(C2_Content, "\n")[1]) \notin extracted[C2_Category]
        /\ \A c \in Categories \ {C2_Category} : extracted[c] = {}

\* C2 witness: such a transcript, with a bare marker among its bullets, has
\* been extracted.
C2_Witness ==
    /\ Returned
    /\ C2_Case
    /\ "" \in BulletTexts(C2_Content)
    /\ extracted[C2_Category] # {}

\* a transcript on which the extraction hits a fault: a message without a
\* role, an assistant message without a content, no first message, or a
\* first message without a content
TranscriptFault(history) ==
    \/ \E i \in 1..Len(history) : ~HasRole(history[i])
    \/ \E i \in 1..Len(history) : IsAssistant(history[i]) /\ ~HasContent(history[i])
    \/ Len(history) = 0
    \/ ~HasContent(history[1])

\* C3: the extraction never lets a fault out, and whenever a fault occurred
\* it returns the fixed fallback value, with nothing of what was collected.
C3_FaultGivesFallback ==
    /\ pc \notin {"p_except", "raised"}
    /\ (Returned /\ (TranscriptFault(chat_history) \/ x_exc # NoException)) =>
          extracted = FallbackRecommendations

\* C3 witness: entries had been collected from an earlier assistant message
\* when the fault occurred, and the fallback was returned.
C3_Witness ==
    /\ Returned
    /\ x_exc # NoException
    /\ TranscriptFault(chat_history)
    /\ \E c \in Categories : recommendations[c] # <<>>
    /\ extracted = FallbackRecommendations

\* the default population: two performance and two optimization items
DefaultPopulation ==
    [critical_issues |-> {}, performance |-> DefaultPerformance,
     optimization |-> DefaultOptimization, upgrade_recommendations |-> {}]

\* C4 as stated: every transcript without assistant messages, the empty one
\* included, whose first text has neither trigger gives the default population.
C4_DefaultsAlsoWhenEmpty ==
    (/\ Returned
     /\ \A i \in 1..Len(chat_history) : HasRole(chat_history[i]) /\ HasContent(chat_history[i])
     /\ AssistantPositions(chat_history) = {}
     /\ Len(chat_history) > 0 =>
           ~MemoryTrigger(chat_history[1].content) /\ ~CpuTrigger(chat_history[1].content))
    => extracted = DefaultPopulation

\* C4 amended: every transcript with at least one message, all with a role
\* and the first with a content, without assistant messages and whose first
\* text has neither trigger gives the default population: two performance
\* and two optimization items, no critical and no upgrade item.
C4_DefaultsWhenNoAssistant ==
    (/\ Returned
     /\ Len(chat_history) >= 1
     /\ \A i \in 1..Len(chat_history) : HasRole(chat_history[i])
     /\ HasContent(chat_history[1])
     /\ AssistantPositions(chat_history) = {}
     /\ ~MemoryTrigger(chat_history[1].content)
     /\ ~CpuTrigger(chat_history[1].content))
    => /\ extracted = DefaultPopulation
       /\ Cardinality(extracted.performance) = 2
       /\ Cardinality(extracted.optimization) = 2

\* C4 witness: such a transcript has been extracted.
C4_Witness ==
    /\ Returned
    /\ Len(chat_history) >= 1
    /\ \A i \in 1..Len(chat_history) : HasRole(chat_history[i])
    /\ HasContent(chat_history[1])
    /\ AssistantPositions(chat_history) = {}
    /\ ~MemoryTrigger(chat_history[1].content)
    /\ ~CpuTrigger(chat_history[1].content)
    /\ x_exc = NoException
    /\ extracted.upgrade_recommendations = {}

(***************************************************************************)
(* Properties of process_diagnostics and of the route.                     *)
(***************************************************************************)
ProcessReturned == pc \in {"p_returned", "done"}

ErrorShape(r) == DOMAIN r = {"status", "message"} /\ r.status = "error"

SuccessShape(r) ==
    /\ DOMAIN r = {"status", "raw_metrics", "analyzed_metrics", "recommendations"}
    /\ r.status = "success"

\* C5: process_diagnostics always returns and never lets a fault out; its
\* result is {status: "error", message} exactly when a step failed and
\* {status: "success", raw_metrics, analyzed_metrics, recommendations}
\* otherwise, and the route answers with that result.
C5_AlwaysReturnsAShape ==
    /\ pc # "raised"
    /\ ProcessReturned =>
          /\ ErrorShape(result) \/ SuccessShape(result)
          /\ ErrorShape(result) <=> exc # NoException
          /\ ErrorShape(result) => result.message = exc.msg
          /\ SuccessShape(result) =>
                /\ result.raw_metrics = raw_system_info
                /\ result.analyzed_metrics = analyzed_metrics
                /\ result.recommendations = extracted
    /\ pc = "done" => response.body = result

\* C5 witness: a request whose collector reported no core (cpu_count = 0) has
\* been answered with the error shape.
C5_Witness ==
    /\ pc = "done"
    /\ exc.type = "ZeroDivisionError"
    /\ raw_system_info.cpu_count = 0
    /\ ErrorShape(response.body)

CollectorFailed == proc.launched /\ proc.returncode # 0

\* C6 as stated: when the collector exits non-zero the answer is
\* {status: "error", message} with message the collector's stderr text, and
\* the chat session is not invoked.
C6_MessageIsStderr ==
    (pc = "done" /\ CollectorFailed) =>
        /\ response.body = [status |-> "error", message |-> proc.stderr]
        /\ ~chat_invoked

\* C6 amended: when the collector exits non-zero the answer is
\* {status: "error", message} with message the text "Error running system
\* diagnostics: " followed by the collector's stderr text, and the chat
\* session is not invoked.
C6_MessageIsPrefixedStderr ==
    (pc = "done" /\ CollectorFailed) =>
        /\ response.body =
              [status |-> "error",
               message |-> "Error running system diagnostics: " \o proc.stderr]
        /\ response.status_code = 200
        /\ ~chat_invoked

\* C6 witness: a collector that exited non-zero with a text on stderr has
\* been answered.
C6_Witness ==
    /\ pc = "done"
    /\ CollectorFailed
    /\ proc.stderr # ""
    /\ ~chat_invoked

Analyzed == "memory" \in DOMAIN analyzed_metrics

\* C7: pressure_level is "high" iff p > 80, "medium" iff 60 < p <= 80 and
\* "normal" iff p <= 60, p being the raw memory_usage_percentage.
C7_PressureLevel ==
    Analyzed =>
        LET p == raw_system_info.memory_usage_percentage
            level == analyzed_metrics.memory.pressure_level
        IN  /\ level = "high" <=> p > 80 * Scale
            /\ level = "medium" <=> (60 * Scale < p /\ p <= 80 * Scale)
            /\ level = "normal" <=> p <= 60 * Scale

\* C7 witness: the boundary value 80 has been analyzed.
C7_Witness ==
    /\ Analyzed
    /\ raw_system_info.memory_usage_percentage = 80 * Scale
    /\ analyzed_metrics.memory.pressure_level = "medium"

\* a successful request whose transcript starts with the prompt made from the
\* analyzed metrics, and whose extraction met no fault
AnsweredFromPrompt ==
    /\ pc = "done"
    /\ SuccessShape(result)
    /\ x_exc = NoException
    /\ Len(chat_history) >= 1
    /\ chat_history[1].content = _create_analysis_prompt(analyzed_metrics)

\* C9: when the derived pressure_level is "high", _is_memory_critical is true
\* of the transcript and the recommendations contain the high-memory-pressure
\* critical issue and the RAM-upgrade recommendation.
C9_HighPressureDetected ==
    (AnsweredFromPrompt /\ analyzed_metrics.memory.pressure_level = "high") =>
        /\ _is_memory_critical(chat_history)
        /\ HighMemoryPressureIssue \in result.recommendations.critical_issues
        /\ RamUpgradeRecommendation \in result.recommendations.upgrade_recommendations

\* C10: when no core has a usage above 80, _has_cpu_hotspots is false of the
\* transcript and the recommendations contain neither the CPU performance
\* string nor the workload-distribution optimization string.
C10_NoHotspotWithoutHotCores ==
    (AnsweredFromPrompt /\ analyzed_metrics.cpu.high_usage_cores = <<>>) =>
        /\ ~_has_cpu_hotspots(chat_history)
        /\ CpuHotspotPerformance \notin result.recommendations.performance
        /\ CpuHotspotOptimization \notin result.recommendations.optimization

=============================================================================
